---------------------------- MODULE Spec2Model ----------------------------
(***************************************************************************)
(* A model of extract_sprites.py: the sprite extractor for the Mega Man 3  *)
(* cartridge image.  The pure functions of the script are operators named  *)
(* as in the source; main() is a state machine that walks the entity ids,  *)
(* builds the list of CHR-bank hypotheses of each, scores every hypothesis *)
(* and reports the best one.                                               *)
(*                                                                         *)
(* The image is a byte array of RomLen bytes.  It is held sparsely: a      *)
(* function from the offsets a fixture writes to their bytes; every other  *)
(* byte of the image is 0.                                                 *)
(***************************************************************************)
EXTENDS Integers, Sequences, FiniteSets, TLC

(***************************************************************************)
(* Program constants.                                                      *)
(***************************************************************************)
HEADER_SIZE == 16
PRG_BANK_SIZE == \h2000
PRG_BANKS == 32
CHR_START == HEADER_SIZE + PRG_BANKS * PRG_BANK_SIZE
SP23_TABLE_ADDR == \hA030

NES_PALETTE ==
  << <<\h62,\h62,\h62>>, <<\h00,\h1F,\hB2>>, <<\h24,\h04,\hC8>>, <<\h52,\h00,\hB2>>,
     <<\h73,\h00,\h76>>, <<\h80,\h00,\h24>>, <<\h73,\h0B,\h00>>, <<\h52,\h28,\h00>>,
     <<\h24,\h44,\h00>>, <<\h00,\h57,\h00>>, <<\h00,\h5C,\h00>>, <<\h00,\h53,\h24>>,
     <<\h00,\h3C,\h76>>, <<\h00,\h00,\h00>>, <<\h00,\h00,\h00>>, <<\h00,\h00,\h00>>,
     <<\hAB,\hAB,\hAB>>, <<\h0D,\h57,\hFF>>, <<\h4B,\h30,\hFF>>, <<\h8A,\h13,\hFF>>,
     <<\hBC,\h08,\hD6>>, <<\hD2,\h12,\h69>>, <<\hC7,\h2E,\h00>>, <<\h9D,\h54,\h00>>,
     <<\h60,\h7B,\h00>>, <<\h20,\h98,\h00>>, <<\h00,\hA3,\h00>>, <<\h00,\h99,\h42>>,
     <<\h00,\h7D,\hB4>>, <<\h00,\h00,\h00>>, <<\h00,\h00,\h00>>, <<\h00,\h00,\h00>>,
     <<\hFF,\hFF,\hFF>>, <<\h53,\hAE,\hFF>>, <<\h90,\h85,\hFF>>, <<\hD3,\h65,\hFF>>,
     <<\hFF,\h57,\hFF>>, <<\hFF,\h5D,\hCF>>, <<\hFF,\h77,\h57>>, <<\hFF,\h9E,\h13>>,
     <<\hB5,\hC5,\h00>>, <<\h6E,\hE2,\h00>>, <<\h38,\hED,\h2E>>, <<\h12,\hE5,\h8C>>,
     <<\h20,\hC8,\hFB>>, <<\h3C,\h3C,\h3C>>, <<\h00,\h00,\h00>>, <<\h00,\h00,\h00>>,
     <<\hFF,\hFF,\hFF>>, <<\hB6,\hDA,\hFF>>, <<\hCE,\hCA,\hFF>>, <<\hE9,\hBE,\hFF>>,
     <<\hFF,\hB8,\hFF>>, <<\hFF,\hBA,\hEA>>, <<\hFF,\hC5,\hBD>>, <<\hFF,\hD5,\h9A>>,
     <<\hE1,\hE5,\h8D>>, <<\hBE,\hF0,\h8D>>, <<\hA4,\hF5,\hA2>>, <<\h98,\hF2,\hC8>>,
     <<\h9E,\hE8,\hFC>>, <<\hAE,\hAE,\hAE>>, <<\h00,\h00,\h00>>, <<\h00,\h00,\h00>> >>

DEFAULT_SP01 == << \h0F, \h0F, \h2C, \h11, \h0F, \h0F, \h30, \h37 >>

(***************************************************************************)
(* The image.  ChrPages is the number of 1K pages of the graphics region   *)
(* that follows the program region; every offset a fixture does not write  *)
(* holds the byte 0.                                                       *)
(***************************************************************************)
ChrPages == 128
RomLen == CHR_START + ChrPages * \h400

\* What rom[off] raises for an index that is not one of the image.
IndexError == [raised |-> "IndexError"]

\* off is an index of the image: 0 .. len(rom) - 1, or a negative index no
\* less than -len(rom), which counts from the end.
InImage(off) == -RomLen <= off /\ off < RomLen

\* rom[off]: the byte at off, the byte at len(rom) + off for a negative
\* index, and IndexError for an index that is not one of the image.
Rd(rom, off) ==
  IF 0 <= off /\ off < RomLen
  THEN IF off \in DOMAIN rom THEN rom[off] ELSE 0
  ELSE IF -RomLen <= off /\ off < 0
  THEN IF (RomLen + off) \in DOMAIN rom THEN rom[RomLen + off] ELSE 0
  ELSE IndexError

\* Bit col of byte b: (b >> col) & 1.
Bit(b, col) == (b \div (2 ^ col)) % 2

\* A byte read as a signed 8-bit value (lines 243-244).
Signed(raw) == IF raw < 128 THEN raw ELSE raw - 256

\* min() and max() of a non-empty set of integers.
Min(S) == CHOOSE m \in S : \A n \in S : m <= n
Max(S) == CHOOSE m \in S : \A n \in S : m >= n

(***************************************************************************)
(* AddressTranslator.                                                      *)
(***************************************************************************)
\* prg_offset with the fixed window always taken from bank 0x1E: the
\* address's 8K half does not select the bank.
prg_offset_bank_1e(bank, cpu_addr) ==
  IF cpu_addr >= \hC000
  THEN HEADER_SIZE + \h1E * PRG_BANK_SIZE + ((cpu_addr - \hC000) % PRG_BANK_SIZE)
  ELSE IF cpu_addr >= \hA000
  THEN HEADER_SIZE + bank * PRG_BANK_SIZE + (cpu_addr - \hA000)
  ELSE HEADER_SIZE + bank * PRG_BANK_SIZE + (cpu_addr - \h8000)

\* prg_offset with the address masked to its place inside an 8K bank.
prg_offset_masked(bank, cpu_addr) ==
  IF cpu_addr >= \hC000
  THEN HEADER_SIZE
         + (\h1E + ((cpu_addr - \hC000) \div PRG_BANK_SIZE)) * PRG_BANK_SIZE
         + (cpu_addr % PRG_BANK_SIZE)
  ELSE HEADER_SIZE + bank * PRG_BANK_SIZE + (cpu_addr % PRG_BANK_SIZE)

prg_offset(bank, cpu_addr) ==
  IF cpu_addr >= \hC000
  THEN HEADER_SIZE
         + (\h1E + ((cpu_addr - \hC000) \div PRG_BANK_SIZE)) * PRG_BANK_SIZE
         + ((cpu_addr - \hC000) % PRG_BANK_SIZE)
  ELSE IF cpu_addr >= \hA000
  THEN HEADER_SIZE + bank * PRG_BANK_SIZE + (cpu_addr - \hA000)
  ELSE HEADER_SIZE + bank * PRG_BANK_SIZE + (cpu_addr - \h8000)

chr_ppu_to_rom(ppu_addr, chr_regs) ==
  IF ppu_addr < \h0800
  THEN CHR_START + (chr_regs[0] + (ppu_addr \div \h400)) * \h400 + (ppu_addr % \h400)
  ELSE IF ppu_addr < \h1000
  THEN CHR_START + (chr_regs[1] + ((ppu_addr - \h0800) \div \h400)) * \h400
         + ((ppu_addr - \h0800) % \h400)
  ELSE IF ppu_addr < \h1400
  THEN CHR_START + chr_regs[2] * \h400 + (ppu_addr - \h1000)
  ELSE IF ppu_addr < \h1800
  THEN CHR_START + chr_regs[3] * \h400 + (ppu_addr - \h1400)
  ELSE IF ppu_addr < \h1C00
  THEN CHR_START + chr_regs[4] * \h400 + (ppu_addr - \h1800)
  ELSE CHR_START + chr_regs[5] * \h400 + (ppu_addr - \h1C00)

(***************************************************************************)
(* PaletteResolver.  A colour is <<r, g, b, a>>; a palette is a function   *)
(* from 0..3 to colours; the result is a function from 0..3 to palettes.   *)
(***************************************************************************)
nes_color_to_rgba(nes_idx, transparent) ==
  IF transparent
  THEN <<0, 0, 0, 0>>
  ELSE LET c == NES_PALETTE[(nes_idx % 64) + 1]
       IN  <<c[1], c[2], c[3], 255>>

build_param_palettes(rom, param) ==
  LET table_off == prg_offset(\h01, SP23_TABLE_ADDR + param * 8)
      raw(pal_idx, k) ==
        IF pal_idx < 2
        THEN DEFAULT_SP01[pal_idx * 4 + k + 1]
        ELSE Rd(rom, table_off + (pal_idx - 2) * 4 + k)
  IN  [pal_idx \in 0..3 |->
        [k \in 0..3 |-> nes_color_to_rgba(raw(pal_idx, k), k = 0)]]

build_stage_palettes(rom, stage) == build_param_palettes(rom, stage)

(***************************************************************************)
(* TileDecoder.  A tile is a function row -> (column -> index 0..3), the   *)
(* column being the position in the row list, most significant bit first.  *)
(***************************************************************************)
BlankTile == [row \in 0..7 |-> [c \in 0..7 |-> 0]]

\* decode_tile_8x8 with the two bit planes taken the other way round.
decode_tile_8x8_swapped(rom, rom_offset) ==
  IF rom_offset < 0 \/ rom_offset + 16 > RomLen
  THEN BlankTile
  ELSE [row \in 0..7 |->
         [c \in 0..7 |->
           Bit(Rd(rom, rom_offset + row + 8), 7 - c)
             + 2 * Bit(Rd(rom, rom_offset + row), 7 - c)]]

\* decode_tile_8x8 without the test for a negative offset: as Python
\* indexes, a negative index counts from the end of the image.
decode_tile_8x8_from_end(rom, rom_offset) ==
  IF rom_offset + 16 > RomLen
  THEN BlankTile
  ELSE [row \in 0..7 |->
         [c \in 0..7 |->
           Bit(Rd(rom, IF rom_offset + row < 0 THEN RomLen + rom_offset + row
                       ELSE rom_offset + row), 7 - c)
             + 2 * Bit(Rd(rom, IF rom_offset + row + 8 < 0
                               THEN RomLen + rom_offset + row + 8
                               ELSE rom_offset + row + 8), 7 - c)]]

decode_tile_8x8(rom, rom_offset) ==
  IF rom_offset < 0 \/ rom_offset + 16 > RomLen
  THEN BlankTile
  ELSE [row \in 0..7 |->
         [c \in 0..7 |->
           Bit(Rd(rom, rom_offset + row), 7 - c)
             + 2 * Bit(Rd(rom, rom_offset + row + 8), 7 - c)]]

\* The offsets decode_tile_8x8 reads.
decode_tile_reads(rom_offset) ==
  IF rom_offset < 0 \/ rom_offset + 16 > RomLen
  THEN {}
  ELSE rom_offset .. (rom_offset + 15)

get_8x8_tile(rom, tile_id, chr_regs) ==
  decode_tile_8x8(rom, chr_ppu_to_rom(\h1000 + tile_id * 16, chr_regs))

(***************************************************************************)
(* EntityResolver and SpriteCompositor: extract_entity_sprite.             *)
(* The result is [img, info, reads]: img is None or an image [w, h, px]    *)
(* with px[y][x] a colour; info is the diagnostics record of a success or  *)
(* [reason |-> s] for the reason string s of a failure; reads is the set   *)
(* of image offsets the call read.                                         *)
(***************************************************************************)
None == [none |-> TRUE]

\* f"{n:02X}" and f"{n:04X}".
HexDigit ==
  <<"0", "1", "2", "3", "4", "5", "6", "7",
    "8", "9", "A", "B", "C", "D", "E", "F">>
Hex2(n) == HexDigit[((n \div 16) % 16) + 1] \o HexDigit[(n % 16) + 1]
Hex4(n) == Hex2(n \div 256) \o Hex2(n % 256)

\* isinstance(v, str): the reason strings are the records with a reason field.
IsStr(v) == "reason" \in DOMAIN v

Transparent == <<0, 0, 0, 0>>

\* Image.resize((nw, nh), Image.NEAREST): output pixel (x, y) is the input
\* pixel at floor((x + 0.5) * w / nw), floor((y + 0.5) * h / nh).
resize(img, nw, nh) ==
  [w |-> nw, h |-> nh,
   px |-> [y \in 0..(nh - 1) |->
            [x \in 0..(nw - 1) |->
              img.px[((2 * y + 1) * img.h) \div (2 * nh)]
                    [((2 * x + 1) * img.w) \div (2 * nw)]]]]

\* Lines 235-255: the sprite list of a definition.
read_sprites(rom, def_off, pos_off, sprite_count) ==
  [i \in 0..(sprite_count - 1) |->
    LET attr == Rd(rom, def_off + 3 + i * 2)
    IN  [tile_id |-> Rd(rom, def_off + 2 + i * 2),
         y_off   |-> Signed(Rd(rom, pos_off + i * 2)),
         x_off   |-> Signed(Rd(rom, pos_off + i * 2 + 1)),
         palette |-> attr % 4,
         h_flip  |-> Bit(attr, 6) = 1,
         v_flip  |-> Bit(attr, 7) = 1]]

\* Lines 277-286: the tile of one sprite, flipped as its attribute says.
sprite_tile(rom, s, chr_regs) ==
  LET tile == get_8x8_tile(rom, s.tile_id, chr_regs)
      tv   == IF s.v_flip THEN [row \in 0..7 |-> tile[7 - row]] ELSE tile
  IN  IF s.h_flip
      THEN [row \in 0..7 |-> [c \in 0..7 |-> tv[row][7 - c]]]
      ELSE tv

\* Image.new('RGBA', (width, height), (0, 0, 0, 0)).
new_image(width, height) ==
  [w |-> width, h |-> height,
   px |-> [y \in 0..(height - 1) |-> [x \in 0..(width - 1) |-> Transparent]]]

\* Lines 289-296: one tile put at (bx, by): every pixel of the tile whose
\* index is not 0 takes the palette's colour, every other pixel stays.
draw_tile(img, tile, palette, bx, by) ==
  [img EXCEPT !.px =
    [y \in 0..(img.h - 1) |->
      [x \in 0..(img.w - 1) |->
        IF /\ y - by \in 0..7
           /\ x - bx \in 0..7
           /\ tile[y - by][x - bx] > 0
        THEN palette[tile[y - by][x - bx]]
        ELSE img.px[y][x]]]]

\* Lines 276-296: the loop over the sprites from the i-th on.
RECURSIVE draw_sprites(_, _, _, _, _, _, _, _)
draw_sprites(img, rom, sprites, chr_regs, palettes, min_x, min_y, i) ==
  IF i \notin DOMAIN sprites
  THEN img
  ELSE LET s == sprites[i]
       IN  draw_sprites(
             draw_tile(img, sprite_tile(rom, s, chr_regs), palettes[s.palette],
                       s.x_off - min_x, s.y_off - min_y),
             rom, sprites, chr_regs, palettes, min_x, min_y, i + 1)

\* all_blank after the loop of lines 275-296: no tile drawn had a pixel
\* whose index is not 0.
all_blank(rom, sprites, chr_regs) ==
  \A i \in DOMAIN sprites :
    LET tile == sprite_tile(rom, sprites[i], chr_regs)
    IN  \A row \in 0..7 : \A col \in 0..7 : tile[row][col] = 0

(***************************************************************************)
(* extract_entity_sprite runs top to bottom through its numbered steps and *)
(* returns at the first that fails.  Each operator below is the function   *)
(* from one step on; its parameters are the locals set by the steps before *)
(* it: a is [oam_id, anim_bank], d is [sprite_def_id, def_off,             *)
(* sprite_count, use_bank14], reads the offsets read so far.  Beside img   *)
(* and info the result records reads and sprites, the sprite list of step  *)
(* 8 (empty when the function returned before it).                         *)
(***************************************************************************)
Fail(reason, reads) ==
  [img |-> None, info |-> [reason |-> reason], reads |-> reads,
   sprites |-> <<>>]

\* The test on the bounding box without its upper limit.
bad_dimensions_nonpositive(width, height) == width <= 0 \/ height <= 0

\* Line 269: the test on the bounding box.
bad_dimensions(width, height) ==
  width <= 0 \/ height <= 0 \/ width > 128 \/ height > 128

\* Steps 9 and 10 (lines 260-313).
compose_sprites(rom, entity_id, chr_regs, palettes, a, d, sprites, reads) ==
  LET idx    == DOMAIN sprites
      min_x  == Min({sprites[i].x_off : i \in idx})
      min_y  == Min({sprites[i].y_off : i \in idx})
      max_x  == Max({sprites[i].x_off + 8 : i \in idx})
      max_y  == Max({sprites[i].y_off + 8 : i \in idx})
      width  == max_x - min_x
      height == max_y - min_y
      tile_reads == UNION {decode_tile_reads(
                             chr_ppu_to_rom(\h1000 + sprites[i].tile_id * 16,
                                            chr_regs)) : i \in idx}
      hp_off   == prg_offset(\h00, \hA400 + entity_id)
      main_off == prg_offset(\h00, \hA100 + entity_id)
  IN  IF bad_dimensions(width, height)
      THEN [Fail("bad dimensions " \o ToString(width) \o "x"
                   \o ToString(height), reads)
            EXCEPT !.sprites = sprites]
      ELSE IF all_blank(rom, sprites, chr_regs)
      THEN [Fail("all tiles blank (wrong CHR bank?)", reads \cup tile_reads)
            EXCEPT !.sprites = sprites]
      ELSE [img |-> resize(draw_sprites(new_image(width, height), rom, sprites,
                                        chr_regs, palettes, min_x, min_y, 0),
                           width * 3, height * 3),
            info |-> [oam_id |-> a.oam_id,
                      anim_bank |-> a.anim_bank,
                      sprite_def_id |-> d.sprite_def_id,
                      sprite_count |-> d.sprite_count,
                      use_bank14 |-> d.use_bank14,
                      hp |-> Rd(rom, hp_off),
                      main_routine |-> Rd(rom, main_off)],
            reads |-> reads \cup tile_reads \cup {hp_off, main_off},
            sprites |-> sprites]

\* Step 8 (lines 229-258); "no sprites" cannot happen, sprite_count >= 1.
read_positions(rom, entity_id, chr_regs, palettes, a, d, pos_bank, pos_ptr, reads) ==
  LET pos_off == prg_offset(pos_bank, pos_ptr)
  IN  IF pos_ptr < \hA000 \/ pos_ptr >= \hC000
      THEN Fail("bad pos ptr $" \o Hex4(pos_ptr), reads)
      ELSE compose_sprites(rom, entity_id, chr_regs, palettes, a, d,
             read_sprites(rom, d.def_off, pos_off, d.sprite_count),
             reads \cup UNION {{d.def_off + 2 + i * 2, d.def_off + 3 + i * 2,
                                pos_off + i * 2, pos_off + i * 2 + 1} :
                               i \in 0..(d.sprite_count - 1)})

\* Steps 6 and 7 (lines 212-227).
parse_definition(rom, entity_id, chr_regs, palettes, a, sprite_def_id, def_ptr, reads) ==
  LET def_off  == prg_offset(a.anim_bank, def_ptr)
      byte0    == Rd(rom, def_off)
      offset_table_idx == Rd(rom, def_off + 1)
      pos_bank == IF Bit(byte0, 7) = 1 THEN \h14 ELSE \h19
      plo_off  == prg_offset(pos_bank, \hBE00 + offset_table_idx)
      phi_off  == prg_offset(pos_bank, \hBF00 + offset_table_idx)
  IN  IF def_ptr < \h8000 \/ def_ptr >= \hA000
      THEN Fail("bad def ptr $" \o Hex4(def_ptr), reads)
      ELSE read_positions(rom, entity_id, chr_regs, palettes, a,
             [sprite_def_id |-> sprite_def_id, def_off |-> def_off,
              sprite_count |-> (byte0 % 128) + 1,
              use_bank14 |-> Bit(byte0, 7) = 1],
             pos_bank, Rd(rom, phi_off) * 256 + Rd(rom, plo_off),
             reads \cup {def_off, def_off + 1, plo_off, phi_off})

\* Step 5 (lines 204-210).
read_definition_pointer(rom, entity_id, chr_regs, palettes, a, sprite_def_id, reads) ==
  LET dlo_off == prg_offset(a.anim_bank, \h8100 + sprite_def_id)
      dhi_off == prg_offset(a.anim_bank, \h8200 + sprite_def_id)
  IN  IF sprite_def_id = 0
      THEN Fail("sprite def ID = 0", reads)
      ELSE parse_definition(rom, entity_id, chr_regs, palettes, a,
             sprite_def_id, Rd(rom, dhi_off) * 256 + Rd(rom, dlo_off),
             reads \cup {dlo_off, dhi_off})

\* Step 4 (lines 195-202).
read_animation(rom, entity_id, chr_regs, palettes, a, anim_ptr, reads) ==
  LET anim_off == prg_offset(a.anim_bank, anim_ptr)
  IN  IF anim_ptr < \h8000 \/ anim_ptr >= \hA000
      THEN Fail("bad anim ptr $" \o Hex4(anim_ptr), reads)
      ELSE read_definition_pointer(rom, entity_id, chr_regs, palettes, a,
             Rd(rom, anim_off + 2), reads \cup {anim_off, anim_off + 2})

\* select_animation with the animation pointer read before the OAM id is
\* tested.
select_animation_eager(rom, entity_id, chr_regs, palettes, oam_id, reads) ==
  LET anim_bank  == IF Bit(oam_id, 7) = 1 THEN \h1B ELSE \h1A
      anim_index == oam_id % 128
      lo_off     == prg_offset(anim_bank, \h8000 + anim_index)
      hi_off     == prg_offset(anim_bank, \h8080 + anim_index)
  IN  IF oam_id = 0
      THEN Fail("no OAM ID", reads \cup {lo_off, hi_off})
      ELSE read_animation(rom, entity_id, chr_regs, palettes,
             [oam_id |-> oam_id, anim_bank |-> anim_bank],
             Rd(rom, hi_off) * 256 + Rd(rom, lo_off),
             reads \cup {lo_off, hi_off})

\* Steps 2 and 3 (lines 180-193).
select_animation(rom, entity_id, chr_regs, palettes, oam_id, reads) ==
  LET anim_bank  == IF Bit(oam_id, 7) = 1 THEN \h1B ELSE \h1A
      anim_index == oam_id % 128
      lo_off     == prg_offset(anim_bank, \h8000 + anim_index)
      hi_off     == prg_offset(anim_bank, \h8080 + anim_index)
  IN  IF oam_id = 0
      THEN Fail("no OAM ID", reads)
      ELSE read_animation(rom, entity_id, chr_regs, palettes,
             [oam_id |-> oam_id, anim_bank |-> anim_bank],
             Rd(rom, hi_off) * 256 + Rd(rom, lo_off),
             reads \cup {lo_off, hi_off})

\* Step 1 (line 179).
extract_entity_sprite(rom, entity_id, chr_regs, palettes) ==
  select_animation(rom, entity_id, chr_regs, palettes,
                   Rd(rom, prg_offset(\h00, \hA300 + entity_id)),
                   {prg_offset(\h00, \hA300 + entity_id)})

(***************************************************************************)
(* The floats of lines 352-354.  A natural number of any size is held as   *)
(* the sequence of its bits, the lowest first and the highest 1 (0 is the  *)
(* empty sequence).  A float is sign * man * 2^exp, man being the number   *)
(* whose MantissaBits bits are the sequence man, the highest 1; 0.0 has    *)
(* all bits 0 and exp 0.  Every operation rounds its exact result to the   *)
(* nearest float, a tie to the one whose lowest bit is 0.                  *)
(***************************************************************************)
MantissaBits == 53

\* The carries of the arithmetic are taken over groups of LimbBits bits.
LimbBits == 10
Base == 2 ^ LimbBits

\* The bits of an integer n, 0 <= n < 2^30.
Bits(n) ==
  [i \in 1..Cardinality({k \in 0..29 : 2 ^ k <= n}) |-> (n \div (2 ^ (i - 1))) % 2]

BitAt(a, i) == IF i <= Len(a) THEN a[i] ELSE 0

\* The integer whose bits are a (a short sequence).
RECURSIVE BigValue(_)
BigValue(a) == IF a = <<>> THEN 0 ELSE Head(a) + 2 * BigValue(Tail(a))

\* a without the zeros above its highest 1.
Trim(a) ==
  IF \A i \in 1..Len(a) : a[i] = 0
  THEN <<>>
  ELSE SubSeq(a, 1, Max({i \in 1..Len(a) : a[i] = 1}))

\* a * 2^s.
Shift(a, s) == IF a = <<>> THEN <<>> ELSE [i \in 1..s |-> 0] \o a

\* a as its digits in base Base, the lowest first, and back.
Limbs(a) ==
  [j \in 1..((Len(a) + LimbBits - 1) \div LimbBits) |->
     BigValue([t \in 1..LimbBits |-> BitAt(a, LimbBits * (j - 1) + t)])]
FromLimbs(A) ==
  Trim([i \in 1..(LimbBits * Len(A)) |->
          (A[((i - 1) \div LimbBits) + 1] \div (2 ^ ((i - 1) % LimbBits))) % 2])

LimbAt(A, j) == IF j <= Len(A) THEN A[j] ELSE 0

\* The digits of an integer n >= 0.
RECURSIVE LimbsOf(_)
LimbsOf(n) == IF n = 0 THEN <<>> ELSE <<n % Base>> \o LimbsOf(n \div Base)

\* A + B on digits, from digit j on with the carry of the digits below.
RECURSIVE LimbAddFrom(_, _, _, _)
LimbAddFrom(A, B, j, carry) ==
  IF j > Len(A) /\ j > Len(B)
  THEN LimbsOf(carry)
  ELSE <<(LimbAt(A, j) + LimbAt(B, j) + carry) % Base>>
         \o LimbAddFrom(A, B, j + 1,
                        (LimbAt(A, j) + LimbAt(B, j) + carry) \div Base)

\* a + b.
BigAdd(a, b) == FromLimbs(LimbAddFrom(Limbs(a), Limbs(b), 1, 0))

\* A * k on digits for an integer k, 1 <= k < 2^20, from digit j on with
\* the carry of the digits below.
RECURSIVE LimbMulFrom(_, _, _, _)
LimbMulFrom(A, k, j, carry) ==
  IF j > Len(A)
  THEN LimbsOf(carry)
  ELSE <<(A[j] * k + carry) % Base>>
         \o LimbMulFrom(A, k, j + 1, (A[j] * k + carry) \div Base)

\* a * k.
BigMul(a, k) == FromLimbs(LimbMulFrom(Limbs(a), k, 1, 0))

\* One step of the long division by d: the quotient and remainder of the
\* digits above, hi, taken down to the next digit.
QuotRemStep(hi, limb, d) ==
  [q |-> <<(Base * hi.r + limb) \div d>> \o hi.q,
   r |-> (Base * hi.r + limb) % d]

\* The quotient and the remainder of the digits A by an integer d,
\* 1 <= d < 2^20.
RECURSIVE LimbQuotRem(_, _)
LimbQuotRem(A, d) ==
  IF A = <<>>
  THEN [q |-> <<>>, r |-> 0]
  ELSE QuotRemStep(LimbQuotRem(Tail(A), d), Head(A), d)

\* The quotient and the remainder of a by d.
BitsOfQuotient(qr) == [q |-> FromLimbs(qr.q), r |-> qr.r]
QuotRem(a, d) == BitsOfQuotient(LimbQuotRem(Limbs(a), d))

FloatZero == [sign |-> 1, exp |-> 0, man |-> [i \in 1..MantissaBits |-> 0]]

\* The float kept * 2^exp, or the next one above it.
RoundedUp(kept, exp, up) ==
  IF ~up
  THEN [sign |-> 1, exp |-> exp, man |-> kept]
  ELSE IF Len(BigAdd(kept, <<1>>)) > MantissaBits
  THEN [sign |-> 1, exp |-> exp + 1,
        man |-> Tail(BigAdd(kept, <<1>>))]
  ELSE [sign |-> 1, exp |-> exp, man |-> BigAdd(kept, <<1>>)]

\* The float nearest to a * 2^exp, s being the number of bits of a that do
\* not fit.
NearestDropping(a, exp, s) ==
  IF s <= 0
  THEN [sign |-> 1, exp |-> exp + s, man |-> [i \in 1..(-s) |-> 0] \o a]
  ELSE RoundedUp(SubSeq(a, s + 1, Len(a)), exp + s,
                 /\ a[s] = 1
                 /\ \/ \E i \in 1..(s - 1) : a[i] = 1
                    \/ a[s + 1] = 1)

Nearest(a, exp) ==
  IF a = <<>> THEN FloatZero ELSE NearestDropping(a, exp, Len(a) - MantissaBits)

\* float(n) for an integer n >= 0.
FromInt(n) == Nearest(Bits(n), 0)

\* The float nearest to the quotient qr.q and a remainder qr.r, times
\* 2^exp: a lowest bit is added that says whether the remainder is not 0.
NearestQuotient(qr, exp) ==
  Nearest(Trim(<<IF qr.r = 0 THEN 0 ELSE 1>> \o qr.q), exp - 1)

\* c / o for integers c >= 0 and o >= 1 (line 352): c is shifted so that
\* the quotient has more than MantissaBits + 1 bits.
FloatDiv(c, o) ==
  IF c = 0
  THEN FloatZero
  ELSE NearestQuotient(
         QuotRem(Shift(Bits(c), MantissaBits + 1 + Len(Bits(o))), o),
         -(MantissaBits + 1 + Len(Bits(o))))

\* x * k for a float x >= 0 and an integer k >= 1.
FloatMul(x, k) == Nearest(BigMul(Trim(x.man), k), x.exp)

\* x + y for floats x, y >= 0.
FloatAdd(x, y) ==
  Nearest(BigAdd(Shift(Trim(x.man), x.exp - Min({x.exp, y.exp})),
                 Shift(Trim(y.man), y.exp - Min({x.exp, y.exp}))),
          Min({x.exp, y.exp}))

\* a > b on numbers of MantissaBits bits.
BigGt(a, b) ==
  \E i \in 1..MantissaBits :
    a[i] > b[i] /\ \A j \in (i + 1)..MantissaBits : a[j] = b[j]

\* |a| > |b| on floats.
MagGt(a, b) ==
  IF a.man = FloatZero.man
  THEN FALSE
  ELSE IF b.man = FloatZero.man
  THEN TRUE
  ELSE a.exp > b.exp \/ (a.exp = b.exp /\ BigGt(a.man, b.man))

(***************************************************************************)
(* CoherenceScorer: score_sprite_coherence.  The score is the float        *)
(* connections / opaque * 1000 + opaque, or the integer -1, held as the    *)
(* float of that value.                                                    *)
(***************************************************************************)
Failed == [sign |-> -1, exp |-> FromInt(1).exp, man |-> FromInt(1).man]

\* a >= b on scores.
Ge(a, b) ==
  IF a.sign = 1
  THEN IF b.sign = 1 THEN ~MagGt(b, a) ELSE TRUE
  ELSE IF b.sign = 1
  THEN a.man = FloatZero.man /\ b.man = FloatZero.man
  ELSE ~MagGt(a, b)

\* a > b on scores (line 549).
Gt(a, b) ==
  IF a.sign = 1
  THEN IF b.sign = 1 THEN MagGt(a, b) ELSE b.man # FloatZero.man \/ MagGt(a, b)
  ELSE IF b.sign = 1 THEN FALSE ELSE MagGt(b, a)

\* a = n for a score a and an integer n >= 0.
ScoreIs(a, n) == a = FromInt(n)

\* Lines 352-354: the score of a rendering of opaque pixels with
\* connections pairs of neighbours.
score_of(opaque, connections) ==
  FloatAdd(FloatMul(FloatDiv(connections, opaque), 1000), FromInt(opaque))

\* Lines 334-344 on the image small, the neighbours looked at being those
\* at the offsets dirs: <<opaque, connections>>.
count_neighbours(small, dirs) ==
  LET uw == small.w
      uh == small.h
      on(x, y) == small.px[y][x][4] > 0
      cells == {c \in (0..(uw - 1)) \X (0..(uh - 1)) : on(c[1], c[2])}
      links == {l \in cells \X dirs :
                 LET nx == l[1][1] + l[2][1]
                     ny == l[1][2] + l[2][2]
                 IN  /\ 0 <= nx /\ nx < uw
                     /\ 0 <= ny /\ ny < uh
                     /\ on(nx, ny)}
  IN  <<Cardinality(cells), Cardinality(links)>>

\* count_pixels with all four neighbours looked at.
count_pixels_four(small) ==
  count_neighbours(small, {<<1, 0>>, <<0, 1>>, <<-1, 0>>, <<0, -1>>})

\* Line 341: the neighbours are the one to the right and the one below.
count_pixels(small) == count_neighbours(small, {<<1, 0>>, <<0, 1>>})

\* Lines 346-355: the result for the rendering r with the counts cnt.
score_counts(r, cnt) ==
  IF cnt[1] = 0
  THEN [score |-> Failed, img |-> r.img, info |-> r.info, reads |-> r.reads,
        sprites |-> r.sprites]
  ELSE [score |-> score_of(cnt[1], cnt[2]),
        img |-> r.img, info |-> r.info, reads |-> r.reads,
        sprites |-> r.sprites]

\* Lines 324-355: the result for r, what extract_entity_sprite returned.
score_rendering(r) ==
  IF r.img = None
  THEN [score |-> Failed, img |-> r.img, info |-> r.info, reads |-> r.reads,
        sprites |-> r.sprites]
  ELSE score_counts(r, count_pixels(resize(r.img, r.img.w \div 3,
                                           r.img.h \div 3)))

score_sprite_coherence(rom, entity_id, chr_regs, palettes) ==
  score_rendering(extract_entity_sprite(rom, entity_id, chr_regs, palettes))

(***************************************************************************)
(* ConfigurationResolver, part 1: build_entity_chr_map.                    *)
(***************************************************************************)
\* The list [e8, e9, 0x00, 0x01, ec, ed], indexed from 0.
Regs(e8, e9, ec, ed) == [k \in 0..5 |-> <<e8, e9, 0, 1, ec, ed>>[k + 1]]

\* Lines 378-394: the dict screen_to_param of the stage whose bank is bank.
screen_to_param(rom, bank) ==
  LET aa40_off == prg_offset(bank, \hAA40)
      aa60_off == prg_offset(bank, \hAA60)
      screen_count(room) == Rd(rom, aa40_off + room) % 32
      param(room) == Rd(rom, aa60_off + room * 2)
      stops == {room \in 0..31 :
                  InImage(aa60_off + room * 2) /\ param(room) >= \h40}
      n_rooms == IF stops = {} THEN 32 ELSE Min(stops)
      first[room \in 0..32] ==
        IF room = 0 THEN 0 ELSE first[room - 1] + screen_count(room - 1) + 1
  IN  [scr \in 0..(first[n_rooms] - 1) |->
        param(CHOOSE room \in 0..(n_rooms - 1) :
                first[room] <= scr /\ scr < first[room + 1])]

\* Lines 380-383 raise IndexError for the stage whose bank is bank: a room
\* is read that is not in the image, and no room before it ends the loop.
rooms_raise(rom, bank) ==
  \E room \in 0..31 :
    /\ ~(/\ InImage(prg_offset(bank, \hAA40) + room)
          /\ InImage(prg_offset(bank, \hAA60) + room * 2))
    /\ \A q \in 0..(room - 1) :
          /\ InImage(prg_offset(bank, \hAA40) + q)
          /\ InImage(prg_offset(bank, \hAA60) + q * 2)
          /\ Rd(rom, prg_offset(bank, \hAA60) + q * 2) < \h40

\* Lines 397-398 raise IndexError: an entry is read that is not in the
\* image, and no entry before it ends the loop.
entries_raise(rom, bank) ==
  \E i \in 0..255 :
    /\ ~(/\ InImage(prg_offset(bank, \hAB00) + i)
          /\ InImage(prg_offset(bank, \hAE00) + i))
    /\ \A q \in 0..(i - 1) :
          /\ InImage(prg_offset(bank, \hAB00) + q)
          /\ InImage(prg_offset(bank, \hAE00) + q)
          /\ ~(/\ Rd(rom, prg_offset(bank, \hAB00) + q) = \hFF
                /\ Rd(rom, prg_offset(bank, \hAE00) + q) = \hFF)

\* Lines 372-411 raise IndexError for the stage whose bank is bank: one of
\* the reads at the addresses of the bank is not in the image.  (The image
\* is longer than the program region, so that the reads of the stage's
\* bank number and of the CHR-parameter table are in it.)
bank_raises(rom, bank) ==
  \/ ~InImage(prg_offset(bank, \hAA80))
  \/ ~InImage(prg_offset(bank, \hAA81))
  \/ rooms_raise(rom, bank)
  \/ entries_raise(rom, bank)

stage_raises(rom, stage) ==
  bank_raises(rom, Rd(rom, prg_offset(\h1E, \hC8B9) + stage))

\* Lines 372-413 for one stage: the entries appended, in table order, each
\* with the entity id it is appended for.
stage_entries(rom, stage) ==
  LET chr_table_off == prg_offset(\h01, \hA200)
      bank == Rd(rom, prg_offset(\h1E, \hC8B9) + stage)
      e8 == Rd(rom, prg_offset(bank, \hAA80))
      e9 == Rd(rom, prg_offset(bank, \hAA81))
      s2p == screen_to_param(rom, bank)
      ab00_off == prg_offset(bank, \hAB00)
      ae00_off == prg_offset(bank, \hAE00)
      scr(i) == Rd(rom, ab00_off + i)
      ent(i) == Rd(rom, ae00_off + i)
      stops == {i \in 0..255 :
                  /\ InImage(ab00_off + i) /\ InImage(ae00_off + i)
                  /\ scr(i) = \hFF /\ ent(i) = \hFF}
      n == IF stops = {} THEN 256 ELSE Min(stops)
      entry(i) ==
        LET param == IF scr(i) \in DOMAIN s2p THEN s2p[scr(i)] ELSE stage
            ec == Rd(rom, chr_table_off + param * 2)
            ed == Rd(rom, chr_table_off + param * 2 + 1)
        IN  [entity_id |-> ent(i),
             cfg |-> [stage |-> stage, chr_regs |-> Regs(e8, e9, ec, ed),
                      param |-> param]]
  IN  SelectSeq([k \in 1..n |-> entry(k - 1)],
                LAMBDA e : e.entity_id <= \h8F)

RECURSIVE all_entries(_, _)
all_entries(rom, stage) ==
  IF stage = \h12
  THEN <<>>
  ELSE stage_entries(rom, stage) \o all_entries(rom, stage + 1)

\* build_entity_chr_map raises IndexError: it does for one of the stages.
build_entity_chr_map_raises(rom) ==
  \E stage \in 0..(\h12 - 1) : stage_raises(rom, stage)

\* The dict entity_id -> list of (stage, chr_regs, param), or IndexError.
build_entity_chr_map(rom) ==
  IF build_entity_chr_map_raises(rom)
  THEN IndexError
  ELSE LET all == all_entries(rom, 0)
           ids == {all[k].entity_id : k \in 1..Len(all)}
       IN  [e \in ids |->
             LET mine == SelectSeq(all, LAMBDA p : p.entity_id = e)
             IN  [k \in 1..Len(mine) |-> mine[k].cfg]]

(***************************************************************************)
(* entity_has_stage_tiles.                                                 *)
(***************************************************************************)
entity_has_stage_tiles(rom, entity_id) ==
  LET oam_id     == Rd(rom, prg_offset(\h00, \hA300 + entity_id))
      anim_bank  == IF Bit(oam_id, 7) = 1 THEN \h1B ELSE \h1A
      anim_index == oam_id % 128
      anim_ptr   == Rd(rom, prg_offset(anim_bank, \h8080 + anim_index)) * 256
                      + Rd(rom, prg_offset(anim_bank, \h8000 + anim_index))
      anim_off   == prg_offset(anim_bank, anim_ptr)
      sprite_def_id == Rd(rom, anim_off + 2)
      def_ptr    == Rd(rom, prg_offset(anim_bank, \h8200 + sprite_def_id)) * 256
                      + Rd(rom, prg_offset(anim_bank, \h8100 + sprite_def_id))
      def_off    == prg_offset(anim_bank, def_ptr)
      sprite_count == (Rd(rom, def_off) % 128) + 1
  IN  IF oam_id = 0 THEN FALSE
      ELSE IF anim_ptr < \h8000 \/ anim_ptr >= \hA000 THEN FALSE
      ELSE IF sprite_def_id = 0 THEN FALSE
      ELSE IF def_ptr < \h8000 \/ def_ptr >= \hA000 THEN FALSE
      ELSE \E i \in 0..(sprite_count - 1) :
             Rd(rom, def_off + 2 + i * 2) >= \h80

(***************************************************************************)
(* ConfigurationResolver, part 2: lines 487-539 of main, the list          *)
(* configs_to_try of one entity.                                           *)
(***************************************************************************)
\* dedup_preferred without the test on seen: every entry is listed.
RECURSIVE dedup_preferred_all(_, _, _, _, _)
dedup_preferred_all(rom, preferred, k, seen, acc) ==
  IF k > Len(preferred)
  THEN acc
  ELSE LET c == preferred[k]
       IN  dedup_preferred_all(rom, preferred, k + 1, seen,
             Append(acc, [stage |-> c.stage, chr_regs |-> c.chr_regs,
                          palettes |-> build_param_palettes(rom, c.param),
                          param |-> c.param]))

\* Lines 501-513: the loop over preferred from its k-th entry on.
RECURSIVE dedup_preferred(_, _, _, _, _)
dedup_preferred(rom, preferred, k, seen, acc) ==
  IF k > Len(preferred)
  THEN acc
  ELSE LET c == preferred[k]
           key == <<c.chr_regs[4], c.chr_regs[5]>>
       IN  IF key \notin seen
           THEN dedup_preferred(rom, preferred, k + 1, seen \cup {key},
                  Append(acc, [stage |-> c.stage, chr_regs |-> c.chr_regs,
                               palettes |-> build_param_palettes(rom, c.param),
                               param |-> c.param]))
           ELSE dedup_preferred(rom, preferred, k + 1, seen, acc)

\* sweep_params without the test on seen: every param is listed.
RECURSIVE sweep_params_all(_, _, _, _)
sweep_params_all(rom, param, seen, acc) ==
  IF param >= \h3A
  THEN acc
  ELSE LET chr_table_off == prg_offset(\h01, \hA200)
           ec == Rd(rom, chr_table_off + param * 2)
           ed == Rd(rom, chr_table_off + param * 2 + 1)
       IN  sweep_params_all(rom, param + 1, seen,
             Append(acc, [stage |-> -1, chr_regs |-> Regs(0, 0, ec, ed),
                          palettes |-> build_param_palettes(rom, param),
                          param |-> param]))

\* Lines 524-539: the loop over the CHR params from param on.
RECURSIVE sweep_params(_, _, _, _)
sweep_params(rom, param, seen, acc) ==
  IF param >= \h3A
  THEN acc
  ELSE LET chr_table_off == prg_offset(\h01, \hA200)
           ec == Rd(rom, chr_table_off + param * 2)
           ed == Rd(rom, chr_table_off + param * 2 + 1)
           key == <<ec, ed>>
       IN  IF key \notin seen
           THEN sweep_params(rom, param + 1, seen \cup {key},
                  Append(acc, [stage |-> -1, chr_regs |-> Regs(0, 0, ec, ed),
                               palettes |-> build_param_palettes(rom, param),
                               param |-> param]))
           ELSE sweep_params(rom, param + 1, seen, acc)

\* entity_chr_map.get(eid): the list, or <<>> for None (no stored list is
\* empty, and the source only tests the result for truth).
map_get(chr_map, e) == IF e \in DOMAIN chr_map THEN chr_map[e] ELSE <<>>

build_configs(rom, chr_map, e) ==
  LET has_stage_tiles == entity_has_stage_tiles(rom, e)
      entity_configs  == map_get(chr_map, e)
      rm_configs   == SelectSeq(entity_configs, LAMBDA c : c.stage < 8)
      doc_configs  == SelectSeq(entity_configs,
                                LAMBDA c : 8 <= c.stage /\ c.stage < 12)
      wily_configs == SelectSeq(entity_configs, LAMBDA c : c.stage >= 12)
      preferred    == IF rm_configs # <<>> THEN rm_configs
                      ELSE IF doc_configs # <<>> THEN doc_configs
                      ELSE wily_configs
  IN  IF entity_configs # <<>> /\ has_stage_tiles
      THEN dedup_preferred(rom, preferred, 1, {}, <<>>)
      ELSE IF entity_configs # <<>>
      THEN LET c == entity_configs[1]
           IN  <<[stage |-> c.stage, chr_regs |-> c.chr_regs,
                  palettes |-> build_param_palettes(rom, c.param),
                  param |-> c.param]>>
      ELSE sweep_params(rom, 0, {}, <<>>)

(***************************************************************************)
(* The images the model runs main on.  Each is written by a fixture: the   *)
(* tables of eleven entities (the other ids have OAM id 0), the tiles of   *)
(* five pages of the graphics region, the tables of six stage banks, and   *)
(* two parts that vary from image to image: the start of the CHR-parameter *)
(* table and the placement tables of the stages.                           *)
(***************************************************************************)
\* The bytes seq written from offset off on.
Bytes(off, seq) == [o \in off..(off + Len(seq) - 1) |-> seq[o - off + 1]]

\* Eight equal rows of a bit plane, and a plane given by its first rows.
Rows(b) == <<b, b, b, b, b, b, b, b>>
Top(rows) == [r \in 1..8 |-> IF r <= Len(rows) THEN rows[r] ELSE 0]

\* Tile k of page page: low plane lo, high plane hi.
Tile(page, k, lo, hi) == Bytes(CHR_START + page * \h400 + k * 16, lo \o hi)

\* Entity ids of the fixture.
E_T0     == \h80  \* one tile of window 4: tile 0x80
E_T1     == \h81  \* tile 0x81, flipped horizontally
E_T2     == \h82  \* tile 0x82, palette 2
E_T3     == \h83  \* tile 0x83, blank in every page
E_SHARED == \h84  \* one solid tile of the fixed window 2 (tile 0x01)
E_WIDE   == \h85  \* two tiles 255 pixels apart: a bounding box 263 wide
E_TWO    == \h86  \* two overlapping flipped tiles, bank 0x1B and bank 0x14
E_NOANIM == \h87  \* animation pointer outside 0x8000..0x9FFF
E_NODEF  == \h88  \* first sprite-definition id 0
E_BADDEF == \h89  \* definition pointer outside 0x8000..0x9FFF
E_BADPOS == \h8A  \* position pointer outside 0xA000..0xBFFF

\* Pages of the graphics region the fixture fills.
PAGE_A    == \h02
PAGE_B    == \h03
PAGE_C    == \h04
PAGE_L    == \h05
PAGE_D    == \h06
PAGE_PAST == \hC8  \* a page beyond the end of the image
BANK_PAST == \h30  \* a bank beyond the end of the image

\* The banks of the stages: stages 0, 1, 8, 9, 12, 13 have a bank of their
\* own; the others share bank 0, whose placement table is empty.
StageBanks == <<2, 3, 0, 0, 0, 0, 0, 0, 4, 5, 0, 0, 6, 7, 0, 0, 0, 0>>

EntityTables ==
  \* bank 0x00: OAM ids, hit points, main routines
     Bytes(prg_offset(\h00, \hA300 + E_T0),
           <<\h10, \h11, \h12, \h13, \h02, \h03, \h85, \h04, \h06, \h07, \h08>>)
  @@ Bytes(prg_offset(\h00, \hA400 + E_T0), <<3, \hFF, 1, 1, 28, 1, 8>>)
  @@ Bytes(prg_offset(\h00, \hA100 + E_T0), <<\h40, \h41, \h42, 0, \h44, 0, \hA6>>)
  \* bank 0x1A: animation pointers (index 4 is left 0x0000)
  @@ Bytes(prg_offset(\h1A, \h8002), <<\h10, \h20>>)
  @@ Bytes(prg_offset(\h1A, \h8082), <<\h90, \h90>>)
  @@ Bytes(prg_offset(\h1A, \h8006), <<\h30, \h40, \h50>>)
  @@ Bytes(prg_offset(\h1A, \h8086), <<\h90, \h90, \h90>>)
  @@ Bytes(prg_offset(\h1A, \h8010), <<\h00, \h10, \h20, \h30>>)
  @@ Bytes(prg_offset(\h1A, \h8090), <<\h92, \h92, \h92, \h92>>)
  \* bank 0x1A: animation sequences (frame count, duration, definition ids)
  @@ Bytes(prg_offset(\h1A, \h9010), <<1, 8, \h02>>)
  @@ Bytes(prg_offset(\h1A, \h9020), <<1, 8, \h03>>)
  @@ Bytes(prg_offset(\h1A, \h9030), <<1, 8, \h00>>)
  @@ Bytes(prg_offset(\h1A, \h9040), <<1, 8, \h07>>)
  @@ Bytes(prg_offset(\h1A, \h9050), <<1, 8, \h08>>)
  @@ Bytes(prg_offset(\h1A, \h9200), <<1, 8, \h10>>)
  @@ Bytes(prg_offset(\h1A, \h9210), <<2, 6, \h11, \h10>>)
  @@ Bytes(prg_offset(\h1A, \h9220), <<1, 8, \h12>>)
  @@ Bytes(prg_offset(\h1A, \h9230), <<1, 8, \h13>>)
  \* bank 0x1A: definition pointers (id 7 is left 0x0000) and definitions
  @@ Bytes(prg_offset(\h1A, \h8102), <<\h10, \h20>>)
  @@ Bytes(prg_offset(\h1A, \h8202), <<\h91, \h91>>)
  @@ Bytes(prg_offset(\h1A, \h8108), <<\h80>>)
  @@ Bytes(prg_offset(\h1A, \h8208), <<\h91>>)
  @@ Bytes(prg_offset(\h1A, \h8110), <<\h00, \h10, \h20, \h30>>)
  @@ Bytes(prg_offset(\h1A, \h8210), <<\h93, \h93, \h93, \h93>>)
  @@ Bytes(prg_offset(\h1A, \h9110), <<\h00, 1, \h01, \h01>>)
  @@ Bytes(prg_offset(\h1A, \h9120), <<\h01, 2, \h01, \h01, \h01, \h01>>)
  @@ Bytes(prg_offset(\h1A, \h9180), <<\h00, 9>>)
  @@ Bytes(prg_offset(\h1A, \h9300), <<\h00, 1, \h80, \h01>>)
  @@ Bytes(prg_offset(\h1A, \h9310), <<\h00, 1, \h81, \h41>>)
  @@ Bytes(prg_offset(\h1A, \h9320), <<\h00, 1, \h82, \h02>>)
  @@ Bytes(prg_offset(\h1A, \h9330), <<\h00, 1, \h83, \h01>>)
  \* bank 0x1B: animation 5, definition 5 (two sprites, positions in 0x14)
  @@ Bytes(prg_offset(\h1B, \h8005), <<\h00>>)
  @@ Bytes(prg_offset(\h1B, \h8085), <<\h90>>)
  @@ Bytes(prg_offset(\h1B, \h9000), <<2, 4, 5>>)
  @@ Bytes(prg_offset(\h1B, \h8105), <<\h00>>)
  @@ Bytes(prg_offset(\h1B, \h8205), <<\h91>>)
  @@ Bytes(prg_offset(\h1B, \h9100), <<\h81, 3, \h80, \h42, \hC0, \h83>>)
  \* bank 0x19: position pointers 1 and 2 (9 is left 0x0000), positions
  @@ Bytes(prg_offset(\h19, \hBE01), <<\h00, \h20>>)
  @@ Bytes(prg_offset(\h19, \hBF01), <<\hA8, \hA8>>)
  @@ Bytes(prg_offset(\h19, \hA800), <<0, 0>>)
  @@ Bytes(prg_offset(\h19, \hA820), <<0, \h80, 0, \h7F>>)
  \* bank 0x14: position pointer 3, positions (0, 0) and (x 4, y -4)
  @@ Bytes(prg_offset(\h14, \hBE03), <<\h10>>)
  @@ Bytes(prg_offset(\h14, \hBF03), <<\hA8>>)
  @@ Bytes(prg_offset(\h14, \hA810), <<0, 0, \hFC, 4>>)

\* Solid: 64 pixels of one index.  Dot: one pixel.  Bars: two full rows.
\* Ell: four pixels in an L.  What is not written is blank.
TileData ==
     Tile(0, 1, Rows(\hFF), Rows(0))                        \* solid, index 1
  @@ Tile(PAGE_A, 0, Rows(\hFF), Rows(0))                   \* solid, index 1
  @@ Tile(PAGE_A, 1, Top(<<\h80>>), Rows(0))                \* dot
  @@ Tile(PAGE_B, 0, Top(<<0, 0, \h10>>), Rows(0))          \* dot
  @@ Tile(PAGE_B, 1, Rows(\hFF), Rows(0))                   \* solid, index 1
  @@ Tile(PAGE_C, 1, Top(<<\hFF, \hFF>>), Rows(0))          \* bars
  @@ Tile(PAGE_C, 2, Top(<<\hFF, \hFF>>), Rows(0))          \* bars
  @@ Tile(PAGE_D, 0, Rows(0), Rows(\hFF))                   \* solid, index 2
  @@ Tile(PAGE_D, 1, Rows(\hFF), Rows(\hFF))                \* solid, index 3
  @@ Tile(PAGE_D, 2, Top(<<0, 0, 0>>), Top(<<0, 0, 0, \hFF, \hFF>>)) \* bars
  @@ Tile(PAGE_L, 0, Top(<<\hC0, \h80, \h80>>), Top(<<\h80>>)) \* ell
  @@ Tile(ChrPages - 1, 63, Rows(\hFF), Rows(\hFF))         \* the last tile

\* Bank 0x01: the SP2/SP3 palettes of parameters 0 and 1 and of parameter 4.
PaletteData ==
     Bytes(prg_offset(\h01, SP23_TABLE_ADDR),
           <<\h0F, \h16, \h27, \h30, \h0F, \h1A, \h2A, \h3A,
             \h4F, \h51, \hA2, \hF3, \h0F, \h05, \h15, \h25>>)
  @@ Bytes(prg_offset(\h01, SP23_TABLE_ADDR + 4 * 8),
           <<\h0F, \h12, \h22, \h32, \h0F, \h14, \h24, \h34>>)

\* The tables of one stage bank: two rooms (screens 0-1 with parameter p0,
\* screen 2 with parameter p1), the terminator, the background selectors,
\* and the placements places (pairs <<screen, entity>>) with their sentinel.
StageData(bank, p0, p1, places) ==
     Bytes(prg_offset(bank, \hAA40), <<\h21, \h40>>)
  @@ Bytes(prg_offset(bank, \hAA60), <<p0, 0, p1, 0, \h40>>)
  @@ Bytes(prg_offset(bank, \hAA80), <<\h10 + bank, \h30 + bank>>)
  @@ Bytes(prg_offset(bank, \hAB00),
           [k \in 1..Len(places) |-> places[k][1]] \o <<\hFF>>)
  @@ Bytes(prg_offset(bank, \hAE00),
           [k \in 1..Len(places) |-> places[k][2]] \o <<\hFF>>)

\* The CHR-parameter table of bank 0x01: pairs (ec, ed) from parameter 0 on.
ChrTable(pairs) ==
  Bytes(prg_offset(\h01, \hA200),
        [k \in 1..(2 * Len(pairs)) |-> pairs[(k + 1) \div 2][2 - (k % 2)]])

\* An image: tab is the start of the CHR-parameter table, place gives the
\* placements of stages 0, 1, 8, 9, 12 and 13.
Image(tab, place) ==
     EntityTables @@ TileData @@ PaletteData
  @@ Bytes(prg_offset(\h1E, \hC8B9), StageBanks)
  @@ ChrTable(tab)
  @@ StageData(0, 0, 0, <<>>)
  @@ StageData(2, 0, 1, place[1])
  @@ StageData(3, 1, 3, place[2])
  @@ StageData(4, 3, 4, place[3])
  @@ StageData(5, 4, 4, place[4])
  @@ StageData(6, 1, 0, place[5])
  @@ StageData(7, 5, 1, place[6])

\* The variable parts.
DefaultTab ==
  <<<<PAGE_B, 0>>, <<PAGE_A, 0>>, <<PAGE_B, 0>>, <<PAGE_C, 0>>,
    <<PAGE_D, PAGE_L>>, <<PAGE_PAST, 0>>>>
Tabs ==
  {DefaultTab,
   <<<<PAGE_D, PAGE_L>>, <<PAGE_C, 0>>, <<PAGE_A, 0>>, <<PAGE_A, PAGE_L>>>>,
   <<>>}

NoPlaces == <<<<>>, <<>>, <<>>, <<>>, <<>>, <<>>>>
Layouts ==
  {<< <<<<0, E_T0>>, <<2, E_T0>>, <<1, E_T0>>, <<0, E_SHARED>>, <<7, E_WIDE>>>>,
      <<<<0, E_T0>>, <<0, \h90>>, <<2, E_T3>>>>,
      <<<<0, E_T0>>, <<0, E_T1>>>>,
      <<<<2, E_T1>>, <<1, E_TWO>>>>,
      <<<<0, E_T2>>, <<0, E_T0>>, <<9, E_T2>>, <<2, E_T1>>>>,
      <<<<0, E_T2>>, <<\hFF, E_NOANIM>>>> >>,
   << <<>>,
      <<>>,
      <<<<2, E_T0>>, <<0, E_T0>>, <<2, E_T0>>, <<1, E_T2>>>>,
      <<<<5, E_T2>>, <<0, E_T2>>>>,
      <<<<1, E_T0>>, <<2, E_T1>>, <<0, E_T1>>, <<0, E_WIDE>>>>,
      <<<<0, E_T1>>, <<0, E_SHARED>>, <<2, E_SHARED>>>> >>}

\* An image in which the bank of stage 2 is beyond the end of the image.
BadBankImage ==
  Bytes(prg_offset(\h1E, \hC8B9) + 2, <<BANK_PAST>>) @@ Image(DefaultTab, NoPlaces)

Images ==
     {Image(tab, NoPlaces) : tab \in Tabs}
  \cup {Image(DefaultTab, place) : place \in Layouts}
  \cup {BadBankImage}

(***************************************************************************)
(* main.  pc is the position in it: "start" before build_entity_chr_map,   *)
(* "configs" at the head of the loop over the entity ids, "score" inside   *)
(* the loop over configs_to_try, "done" after the last entity, "raised"    *)
(* when main has ended with an IndexError.                                 *)
(***************************************************************************)
VARIABLES
  rom,             \* the image read from ROM_PATH
  pc,
  entity_chr_map,
  eid,
  configs_to_try,
  ci,              \* the index in configs_to_try of the next cfg (from 1)
  best_count, best_img, best_info, best_stage, best_param,
  last,            \* the latest score_sprite_coherence call and its result
  success, failed,
  files,           \* the bitmaps saved so far, by entity id
  printed,         \* the lines printed per entity so far: [eid, text], and
                   \* the reason inside the text of a SKIP line
  translate,       \* a pair of prg_offset calls (SpecAddr), None in main
  decode           \* a decode_tile_8x8 call and the scoring of a hypothesis
                   \* (SpecTile), None in main

vars == <<rom, pc, entity_chr_map, eid, configs_to_try, ci,
          best_count, best_img, best_info, best_stage, best_param,
          last, success, failed, files, printed, translate, decode>>

stage_names ==
  <<"Needle", "Magnet", "Gemini", "Hard", "Top", "Snake", "Spark", "Shadow",
    "DR-Needle", "DR-Gemini", "DR-Shadow", "DR-Spark",
    "Wily1", "Wily2", "Wily3", "Wily4", "Wily5", "Wily6">>

Init ==
  /\ rom \in Images
  /\ pc = "start"
  /\ entity_chr_map = <<>>
  /\ eid = 0
  /\ configs_to_try = <<>>
  /\ ci = 1
  /\ best_count = Failed
  /\ best_img = None
  /\ best_info = None
  /\ best_stage = -1
  /\ best_param = -1
  /\ last = None
  /\ success = 0
  /\ failed = 0
  /\ files = <<>>
  /\ printed = <<>>
  /\ translate = None
  /\ decode = None

\* Lines 466-485 (the line that prints the size of the map is not held in
\* printed; fallback_configs, which nothing reads, is left out: its reads
\* are reads that build_entity_chr_map has made).  When
\* build_entity_chr_map raises IndexError main ends there, nothing printed
\* or saved.
Start ==
  /\ pc = "start"
  /\ entity_chr_map' = IF build_entity_chr_map_raises(rom)
                       THEN entity_chr_map
                       ELSE build_entity_chr_map(rom)
  /\ success' = 0
  /\ failed' = 0
  /\ eid' = 0
  /\ pc' = IF build_entity_chr_map_raises(rom) THEN "raised" ELSE "configs"
  /\ UNCHANGED <<rom, configs_to_try, ci, best_count, best_img, best_info,
                 best_stage, best_param, last, files, printed, translate,
                 decode>>

\* Lines 487-545: the hypothesis list of entity eid, and the empty best.
BuildConfigs ==
  /\ pc = "configs"
  /\ eid < \h90
  /\ configs_to_try' = build_configs(rom, entity_chr_map, eid)
  /\ ci' = 1
  /\ best_count' = Failed
  /\ best_img' = None
  /\ best_info' = None
  /\ best_stage' = -1
  /\ best_param' = -1
  /\ pc' = "score"
  /\ UNCHANGED <<rom, entity_chr_map, eid, last, success, failed, files,
                 printed, translate,
                 decode>>

\* Lines 549-554: the best so far after cfg scored r.
keep_best(cfg, r) ==
  /\ last' = [entity_id |-> eid, chr_regs |-> cfg.chr_regs,
              palettes |-> cfg.palettes, score |-> r.score,
              img |-> r.img, info |-> r.info, reads |-> r.reads,
              sprites |-> r.sprites]
  /\ IF Gt(r.score, best_count)
     THEN /\ best_count' = r.score
          /\ best_img' = r.img
          /\ best_info' = r.info
          /\ best_stage' = cfg.stage
          /\ best_param' = cfg.param
     ELSE UNCHANGED <<best_count, best_img, best_info, best_stage,
                      best_param>>

\* TryConfig leaving the loop at the first hypothesis that fails.
TryConfigBreak ==
  /\ pc = "score"
  /\ ci <= Len(configs_to_try)
  /\ keep_best(configs_to_try[ci],
               score_sprite_coherence(rom, eid, configs_to_try[ci].chr_regs,
                                      configs_to_try[ci].palettes))
  /\ ci' = IF last'.img = None THEN Len(configs_to_try) + 1 ELSE ci + 1
  /\ UNCHANGED <<rom, pc, entity_chr_map, eid, configs_to_try, success,
                 failed, files, printed, translate,
                 decode>>

\* Lines 547-554: one turn of the loop over configs_to_try.
TryConfig ==
  /\ pc = "score"
  /\ ci <= Len(configs_to_try)
  /\ keep_best(configs_to_try[ci],
               score_sprite_coherence(rom, eid, configs_to_try[ci].chr_regs,
                                      configs_to_try[ci].palettes))
  /\ ci' = ci + 1
  /\ UNCHANGED <<rom, pc, entity_chr_map, eid, configs_to_try, success,
                 failed, files, printed, translate,
                 decode>>

\* The name of the directory the bitmaps are saved in (line 16).
OUTPUT_DIR == "enemy_sprites"

\* Lines 557-570: the line printed for a saved sprite.
saved_text(e, info, stage, param, mapped) ==
  LET path     == OUTPUT_DIR \o "/" \o Hex2(e) \o ".png"
      hp_str   == IF info.hp = \hFF THEN "INV" ELSE ToString(info.hp)
      stg_name == IF stage >= 0 /\ stage < Len(stage_names)
                  THEN stage_names[stage + 1] ELSE "param"
      param_str == IF param >= 0 THEN "p$" \o Hex2(param) ELSE ""
  IN  "  $" \o Hex2(e) \o ": OAM=$" \o Hex2(info.oam_id) \o " "
        \o "main=$" \o Hex2(info.main_routine) \o " HP=" \o hp_str \o " "
        \o "sprites=" \o ToString(info.sprite_count) \o " "
        \o "CHR=" \o stg_name \o " " \o param_str
        \o " (" \o mapped \o ") → " \o path

\* Lines 573-574: the reason of a failed entity.
skip_reason(info) == IF IsStr(info) THEN info.reason ELSE "unknown"

\* Lines 556-576: the end of one turn of the loop over the entity ids.
Report ==
  /\ pc = "score"
  /\ ci > Len(configs_to_try)
  /\ IF best_img # None
     THEN /\ files' = (eid :> best_img) @@ files
          /\ printed' = Append(printed,
               [eid |-> eid, reason |-> "",
                text |-> saved_text(eid, best_info, best_stage, best_param,
                           IF map_get(entity_chr_map, eid) # <<>>
                           THEN "room" ELSE "heuristic")])
          /\ success' = success + 1
          /\ UNCHANGED failed
     ELSE /\ printed' =
               IF skip_reason(best_info) # "no OAM ID"
               THEN Append(printed,
                      [eid |-> eid, reason |-> skip_reason(best_info),
                       text |-> "  $" \o Hex2(eid) \o ": SKIP ("
                                  \o skip_reason(best_info) \o ")"])
               ELSE printed
          /\ failed' = failed + 1
          /\ UNCHANGED <<files, success>>
  /\ eid' = eid + 1
  /\ pc' = "configs"
  /\ UNCHANGED <<rom, entity_chr_map, configs_to_try, ci, best_count,
                 best_img, best_info, best_stage, best_param, last, translate,
                 decode>>

\* Line 578: the loop over the entity ids is over.
Finish ==
  /\ pc = "configs"
  /\ eid = \h90
  /\ pc' = "done"
  /\ UNCHANGED <<rom, entity_chr_map, eid, configs_to_try, ci, best_count,
                 best_img, best_info, best_stage, best_param, last, success,
                 failed, files, printed, translate,
                 decode>>

Next == Start \/ BuildConfigs \/ TryConfig \/ Report \/ Finish

Spec == Init /\ [][Next]_vars

(***************************************************************************)
(* Properties of main, checked under Spec.                                 *)
(***************************************************************************)
\* The OAM id of entity e: the byte of the table at 0xA300 of bank 0.
OamOffset(e) == prg_offset(\h00, \hA300 + e)
OamId(e) == Rd(rom, OamOffset(e))

\* score_sprite_coherence has been called.
Called == last # None

\* The pair of selectors 4 and 5 that the CHR-parameter table gives param p.
SweepPair(p) ==
  <<Rd(rom, prg_offset(\h01, \hA200) + 2 * p),
    Rd(rom, prg_offset(\h01, \hA200) + 2 * p + 1)>>

\* The params whose pair no smaller param has.
FirstOfPair == {p \in 0..\h39 : \A q \in 0..(p - 1) : SweepPair(q) # SweepPair(p)}

\* C1: the hypothesis list built for an entity is never empty; for an entity
\* that no placement table names it is the sweep of the params 0x00..0x39
\* in increasing order, a param being listed exactly when no smaller param
\* has the same pair of selectors 4 and 5.
C1_HypothesisList ==
  (pc = "score" /\ ci = 1) =>
    /\ Len(configs_to_try) >= 1
    /\ eid \notin DOMAIN entity_chr_map =>
         /\ {configs_to_try[k].param : k \in 1..Len(configs_to_try)} = FirstOfPair
         /\ \A k \in 1..(Len(configs_to_try) - 1) :
              configs_to_try[k].param < configs_to_try[k + 1].param
         /\ \A k \in 1..Len(configs_to_try) :
              /\ configs_to_try[k].stage = -1
              /\ configs_to_try[k].chr_regs =
                   Regs(0, 0, SweepPair(configs_to_try[k].param)[1],
                        SweepPair(configs_to_try[k].param)[2])

\* The list of an unplaced entity in an image where other entities are
\* placed and where the sweep drops some params and keeps several.
C1_Witness ==
  /\ pc = "score"
  /\ ci = 1
  /\ eid \notin DOMAIN entity_chr_map
  /\ DOMAIN entity_chr_map # {}
  /\ Len(configs_to_try) > 1
  /\ Len(configs_to_try) < \h3A

\* The bounding box of a sprite list (lines 260-266).
BoxWidth(sprites) ==
  Max({sprites[i].x_off + 8 : i \in DOMAIN sprites})
    - Min({sprites[i].x_off : i \in DOMAIN sprites})
BoxHeight(sprites) ==
  Max({sprites[i].y_off + 8 : i \in DOMAIN sprites})
    - Min({sprites[i].y_off : i \in DOMAIN sprites})

\* The latest call composed a bounding box outside (0, 128].
Degenerate ==
  /\ Called
  /\ DOMAIN last.sprites # {}
  /\ \/ BoxWidth(last.sprites) <= 0
     \/ BoxWidth(last.sprites) > 128
     \/ BoxHeight(last.sprites) <= 0
     \/ BoxHeight(last.sprites) > 128

\* The latest call was the only hypothesis of the entity just reported.
SoleHypothesisReported ==
  /\ pc \in {"configs", "done"}
  /\ eid > 0
  /\ Called
  /\ last.entity_id = eid - 1
  /\ Len(configs_to_try) = 1

\* C2: a hypothesis whose bounding box is not within (0, 128] is rejected
\* with the bad-dimensions reason and the failure score and is not taken as
\* best; when it is the only hypothesis, the entity is counted as failed, no
\* bitmap is saved for it, and main goes on to the next entity.
C2_DegenerateBox ==
  /\ Degenerate =>
       /\ last.img = None
       /\ last.score = Failed
       /\ last.info = [reason |-> "bad dimensions "
                                   \o ToString(BoxWidth(last.sprites)) \o "x"
                                   \o ToString(BoxHeight(last.sprites))]
       /\ best_info # last.info
  /\ (Degenerate /\ SoleHypothesisReported) =>
       /\ (eid - 1) \notin DOMAIN files
       /\ success = Cardinality(DOMAIN files)
       /\ success + failed = eid
       /\ failed >= 1

\* The entity with the box 263 wide, placed, has been reported.
C2_Witness ==
  /\ Degenerate
  /\ SoleHypothesisReported
  /\ pc = "configs"
  /\ BoxWidth(last.sprites) = 263

\* C6: a call for an entity whose OAM id is 0 returns no image and the
\* reason "no OAM ID", and the only offset of the image it reads is the OAM
\* entry of the entity, whatever the selectors.
C6_MissingOamId ==
  (Called /\ OamId(last.entity_id) = 0) =>
    /\ last.img = None
    /\ last.info = [reason |-> "no OAM ID"]
    /\ last.score = Failed
    /\ last.reads = {OamOffset(last.entity_id)}

\* A call for an entity without OAM id made with selectors of a page that
\* holds tiles.
C6_Witness ==
  /\ Called
  /\ OamId(last.entity_id) = 0
  /\ last.chr_regs[4] = PAGE_D
  /\ last.chr_regs[5] = PAGE_L

\* The bucket of a stage: 1 for stages 0..7, 2 for 8..11, 3 for 12 and up.
BucketOf(stage) == IF stage < 8 THEN 1 ELSE IF stage < 12 THEN 2 ELSE 3

\* The pair of selectors 4 and 5 of a placement hypothesis.
PairOf(c) == <<c.chr_regs[4], c.chr_regs[5]>>

\* The places in the placement list P of the entries of its first bucket
\* that is not empty.
FirstBucket(P) ==
  {k \in 1..Len(P) :
     \A j \in 1..Len(P) : BucketOf(P[k].stage) <= BucketOf(P[j].stage)}

\* Those of the places K whose pair no earlier place of K has.
FirstOfEachPair(P, K) ==
  {k \in K : \A j \in K : j < k => PairOf(P[j]) # PairOf(P[k])}

\* The list L holds the entries of P at the places K, in the order of P.
ListsPlaces(L, P, K) ==
  /\ Len(L) = Cardinality(K)
  /\ \A k \in K :
       LET i == Cardinality({j \in K : j <= k})
       IN  /\ L[i].stage = P[k].stage
           /\ L[i].chr_regs = P[k].chr_regs
           /\ L[i].param = P[k].param

\* No hypothesis of L is of a later bucket than an entry of P, and no two
\* have the same pair.
NoLaterBucketNoPairTwice(L, P) ==
  /\ \A i \in 1..Len(L) : \A j \in 1..Len(P) :
       BucketOf(L[i].stage) <= BucketOf(P[j].stage)
  /\ \A i, j \in 1..Len(L) : i # j => PairOf(L[i]) # PairOf(L[j])

\* The list of a placed entity has just been built.
PlacedListBuilt == pc = "score" /\ ci = 1 /\ eid \in DOMAIN entity_chr_map

\* C11 as stated: the list of every entity with a placement hypothesis is
\* the placement hypotheses of the first bucket that is not empty, in scan
\* order, the first of each pair of selectors 4 and 5 only; none is of a
\* later bucket and no two have the same pair.
C11_FirstBucketDeduplicated ==
  PlacedListBuilt =>
    /\ ListsPlaces(configs_to_try, entity_chr_map[eid],
                   FirstOfEachPair(entity_chr_map[eid],
                                   FirstBucket(entity_chr_map[eid])))
    /\ NoLaterBucketNoPairTwice(configs_to_try, entity_chr_map[eid])

\* C11 amended: the list of an entity with a placement hypothesis whose
\* sprite definition names a tile 0x80 or above is the placement hypotheses
\* of the first bucket that is not empty, in scan order, the first of each
\* pair of selectors 4 and 5 only; the list of any other placed entity is
\* its first placement hypothesis alone; in both cases none is of a later
\* bucket and no two have the same pair.
C11_FirstBucketOrFirstPlacement ==
  PlacedListBuilt =>
    /\ IF entity_has_stage_tiles(rom, eid)
       THEN ListsPlaces(configs_to_try, entity_chr_map[eid],
                        FirstOfEachPair(entity_chr_map[eid],
                                        FirstBucket(entity_chr_map[eid])))
       ELSE ListsPlaces(configs_to_try, entity_chr_map[eid], {1})
    /\ NoLaterBucketNoPairTwice(configs_to_try, entity_chr_map[eid])

\* The list of an entity with stage tiles placed in several buckets, whose
\* first bucket holds a pair twice and two different pairs.
C11_Witness ==
  /\ PlacedListBuilt
  /\ entity_has_stage_tiles(rom, eid)
  /\ Len(configs_to_try) >= 2
  /\ Len(configs_to_try) < Cardinality(FirstBucket(entity_chr_map[eid]))
  /\ Cardinality(FirstBucket(entity_chr_map[eid])) < Len(entity_chr_map[eid])

\* The hypotheses of entity e, each with its place k in configs_to_try and
\* the result r of scoring it.
Scored(e) ==
  {[k |-> k,
    r |-> score_sprite_coherence(rom, e, configs_to_try[k].chr_regs,
                                 configs_to_try[k].palettes)] :
     k \in 1..Len(configs_to_try)}

\* The loop over configs_to_try has ended and the entity is not yet reported.
LoopDone == pc = "score" /\ ci > Len(configs_to_try)

\* best_* are those of the hypothesis s.
BestIs(s) ==
  /\ best_count = s.r.score
  /\ best_img = s.r.img
  /\ best_info = s.r.info
  /\ best_stage = configs_to_try[s.k].stage
  /\ best_param = configs_to_try[s.k].param

\* s is the earliest of the hypotheses S with the greatest score.
FirstMaximum(s, S) ==
  /\ \A t \in S : ~Gt(t.r.score, s.r.score)
  /\ \A t \in S : t.k < s.k => Gt(s.r.score, t.r.score)

\* C3: when the loop over the hypothesis list has ended, the hypothesis
\* chosen is one with the greatest score, the earliest in the list among
\* those with that score; a hypothesis that failed scores below every one
\* that did not and is never the chosen one (nothing is chosen when all
\* fail).
C3_Selection ==
  LoopDone =>
    /\ \A s \in Scored(eid) : s.r.score # Failed => Gt(s.r.score, Failed)
    /\ IF \A s \in Scored(eid) : s.r.score = Failed
       THEN best_img = None /\ best_info = None /\ best_count = Failed
       ELSE \E s \in Scored(eid) :
              /\ s.r.score # Failed
              /\ FirstMaximum(s, Scored(eid))
              /\ BestIs(s)

\* The loop has ended on a list in which two hypotheses share the greatest
\* score and another failed; the earlier of the two is the chosen one.
C3_Witness ==
  /\ LoopDone
  /\ best_img # None
  /\ \E s, t, u \in Scored(eid) :
       /\ s.k < t.k
       /\ s.r.score = best_count
       /\ t.r.score = best_count
       /\ u.r.score = Failed
       /\ best_param = configs_to_try[s.k].param
       /\ best_param # configs_to_try[t.k].param

\* Entity eid - 1 has just been reported; configs_to_try is still its list.
Reported == pc \in {"configs", "done"} /\ eid > 0

\* C4: a hypothesis that fails is only passed over, the loop goes on to the
\* end of the list; the entity is counted as failed exactly when every
\* hypothesis of its list failed, and otherwise the bitmap saved for it is
\* the rendering of a hypothesis that did not fail.
C4_FailedIffAllFail ==
  Reported =>
    /\ last.entity_id = eid - 1
    /\ last.chr_regs = configs_to_try[Len(configs_to_try)].chr_regs
    /\ (eid - 1) \in DOMAIN files
         <=> \E s \in Scored(eid - 1) : s.r.img # None
    /\ (eid - 1) \in DOMAIN files
         => \E s \in Scored(eid - 1) :
              s.r.score # Failed /\ s.r.img = files[eid - 1]
    /\ success = Cardinality(DOMAIN files)
    /\ success + failed = eid

\* An entity is reported as saved whose list holds a failed hypothesis
\* before one that did not fail, and a failed one after it.
C4_Witness ==
  /\ Reported
  /\ (eid - 1) \in DOMAIN files
  /\ \E s, t, u \in Scored(eid - 1) :
       /\ s.k < t.k
       /\ t.k < u.k
       /\ s.r.img = None
       /\ t.r.img # None
       /\ u.r.img = None

\* What main reports for a failed entity e: the reason of its SKIP line, or
\* that it prints no line.
Outcome(e) ==
  IF \E k \in 1..Len(printed) : printed[k].eid = e
  THEN [reason |-> printed[CHOOSE k \in 1..Len(printed) :
                             printed[k].eid = e].reason]
  ELSE [silent |-> TRUE]

FailedEntities == {e \in 0..(eid - 1) : e \notin DOMAIN files}

\* C5: of the entities that failed, one whose OAM id is 0 and one that has
\* an OAM id but no usable rendering are never reported in the same way.
C5_DistinctReasons ==
  pc = "done" =>
    {Outcome(e) : e \in {f \in FailedEntities : OamId(f) = 0}}
      \cap {Outcome(e) : e \in {f \in FailedEntities : OamId(f) # 0}} = {}

\* The cells of the unscaled rendering that are opaque: cell <<x, y>> is the
\* 3x3 block of img whose centre is the pixel (3x + 1, 3y + 1).
OpaqueCells(img) ==
  {c \in (0..((img.w \div 3) - 1)) \X (0..((img.h \div 3) - 1)) :
     img.px[3 * c[2] + 1][3 * c[1] + 1][4] > 0}

\* The pairs of opaque cells side by side, and one above the other.
SideBySide(O) == {c \in O : <<c[1] + 1, c[2]>> \in O}
OneAboveOther(O) == {c \in O : <<c[1], c[2] + 1>> \in O}
Connections(O) == Cardinality(SideBySide(O)) + Cardinality(OneAboveOther(O))

\* The integer below 16 * x for a float x, 0 <= x < 2^26 (the bits of x
\* from the one worth 1/16 up).
Sixteenths(x) ==
  IF x.exp + 4 >= 0
  THEN BigValue(Shift(Trim(x.man), x.exp + 4))
  ELSE BigValue(SubSeq(x.man, Min({MantissaBits, -(x.exp + 4)}) + 1, MantissaBits))

\* C9: the score of a rendering is connections / opaque * 1000 + opaque,
\* opaque being the number of opaque pixels of the unscaled rendering and
\* connections the number of pairs of opaque pixels that are neighbours to
\* the right or below: it is the float that line 352 and line 354 compute
\* from these two counts, which is the value of the formula to within a
\* sixteenth; one opaque pixel alone scores 1, a solid 8x8 block 1814; a
\* call that renders no opaque pixel scores -1 and is not taken as best.
C9_Score ==
  Called =>
    IF last.img = None
    THEN last.score = Failed /\ best_info # last.info
    ELSE /\ Cardinality(OpaqueCells(last.img)) > 0
         /\ last.score.sign = 1
         /\ last.score
              = FloatAdd(FloatMul(FloatDiv(Connections(OpaqueCells(last.img)),
                                           Cardinality(OpaqueCells(last.img))),
                                  1000),
                         FromInt(Cardinality(OpaqueCells(last.img))))
         /\ Sixteenths(last.score)
              - ( ( Connections(OpaqueCells(last.img)) * 1000
                    + Cardinality(OpaqueCells(last.img))
                        * Cardinality(OpaqueCells(last.img)) ) * 16 )
                  \div Cardinality(OpaqueCells(last.img))
              \in {-1, 0, 1}
         /\ Cardinality(OpaqueCells(last.img)) = 1 => ScoreIs(last.score, 1)
         /\ OpaqueCells(last.img) = (0..7) \X (0..7)
              => ScoreIs(last.score, 1814)

\* A rendering of two full rows of a tile: 16 opaque pixels, 14 + 8
\* connections, score 22 / 16 * 1000 + 16 = 1391.
C9_Witness ==
  /\ Called
  /\ last.img # None
  /\ Cardinality(OpaqueCells(last.img)) = 16
  /\ Connections(OpaqueCells(last.img)) = 22
  /\ ScoreIs(last.score, 1391)

\* The 16 bytes of the tile of sprite s under the selectors chr_regs lie in
\* the image, the low plane all ones and the high plane all zeros: a solid
\* tile of index 1.
SolidTile(s, chr_regs) ==
  LET off == chr_ppu_to_rom(\h1000 + s.tile_id * 16, chr_regs)
  IN  /\ off >= 0
      /\ off + 16 <= RomLen
      /\ \A row \in 0..7 : Rd(rom, off + row) = \hFF /\ Rd(rom, off + row + 8) = 0

\* The latest call resolved its entity to one sprite at (0, 0) with palette
\* slot 1 whose tile is solid.
OneSolidTile ==
  /\ Called
  /\ DOMAIN last.sprites = {0}
  /\ last.sprites[0].x_off = 0
  /\ last.sprites[0].y_off = 0
  /\ last.sprites[0].palette = 1
  /\ SolidTile(last.sprites[0], last.chr_regs)

\* C10 as stated: for one solid tile at (0, 0) with palette slot 1 the call
\* returns a bitmap of 8x8 pixels, 64 of them opaque and all of the colour
\* palette[1][1], and the score 1814.
C10_Bitmap8x8 ==
  OneSolidTile =>
    /\ last.img # None
    /\ last.img.w = 8
    /\ last.img.h = 8
    /\ \A y \in 0..7 : \A x \in 0..7 : last.img.px[y][x] = last.palettes[1][1]
    /\ last.palettes[1][1][4] > 0
    /\ ScoreIs(last.score, 1814)

\* C10 amended: for one solid tile at (0, 0) with palette slot 1 the call
\* returns the 8x8 rendering scaled 3 times: a bitmap of 24x24 pixels, all
\* 576 opaque and of the colour palette[1][1], and the score 1814.
C10_Bitmap24x24 ==
  OneSolidTile =>
    /\ last.img # None
    /\ last.img.w = 24
    /\ last.img.h = 24
    /\ \A y \in 0..23 : \A x \in 0..23 : last.img.px[y][x] = last.palettes[1][1]
    /\ last.palettes[1][1][4] > 0
    /\ ScoreIs(last.score, 1814)

\* The entity of the fixed window resolved to its solid tile.
C10_Witness ==
  /\ OneSolidTile
  /\ last.entity_id = E_SHARED
  /\ last.img # None

(***************************************************************************)
(* prg_offset on its own.  A run draws a bank and two CPU addresses and    *)
(* calls prg_offset(bank, cpu_addr) and prg_offset(bank, other); the       *)
(* values returned are held as [offset |-> n].  The addresses are the      *)
(* first two and the last of every 8K stretch of the 64K address space.    *)
(***************************************************************************)
Banks == 0..(PRG_BANKS - 1)
Stretches == {\h0000, \h2000, \h4000, \h6000, \h8000, \hA000, \hC000, \hE000}
Addrs == {base + d : base \in Stretches, d \in {0, 1, PRG_BANK_SIZE - 1}}

InitAddr ==
  /\ rom = <<>>
  /\ pc = "start"
  /\ entity_chr_map = <<>>
  /\ eid = 0
  /\ configs_to_try = <<>>
  /\ ci = 1
  /\ best_count = Failed
  /\ best_img = None
  /\ best_info = None
  /\ best_stage = -1
  /\ best_param = -1
  /\ last = None
  /\ success = 0
  /\ failed = 0
  /\ files = <<>>
  /\ printed = <<>>
  /\ translate \in [bank : Banks, cpu_addr : Addrs, other : Addrs,
                     result : {None}, other_result : {None}]
  /\ decode = None

Translate ==
  /\ translate.result = None
  /\ translate' =
       [translate EXCEPT
          !.result = [offset |-> prg_offset(translate.bank, translate.cpu_addr)],
          !.other_result = [offset |-> prg_offset(translate.bank, translate.other)]]
  /\ UNCHANGED <<rom, pc, entity_chr_map, eid, configs_to_try, ci, best_count,
                 best_img, best_info, best_stage, best_param, last, success,
                 failed, files, printed, decode>>

NextAddr == Translate

SpecAddr == InitAddr /\ [][NextAddr]_vars

(***************************************************************************)
(* Properties of prg_offset, checked under SpecAddr.                       *)
(***************************************************************************)
\* The program windows: 0x8000..0x9FFF, 0xA000..0xBFFF (both switchable)
\* and 0xC000..0xFFFF (fixed).
InWindows(addr) == addr \in \h8000..\hFFFF
WindowOf(addr) ==
  IF addr >= \hC000 THEN \hC000 ELSE IF addr >= \hA000 THEN \hA000 ELSE \h8000

\* The offset of the first byte of a bank.
BankStart(bank) == HEADER_SIZE + bank * PRG_BANK_SIZE

\* The failure the specification names for an address below the floor.
OutOfRange == [error |-> "OutOfRange"]

InRange(result) ==
  /\ "offset" \in DOMAIN result
  /\ result.offset >= HEADER_SIZE
  /\ result.offset < RomLen

\* C7 as stated: for every bank and every address in a program window the
\* offset lies in [headerSize, fileLength), and for a fixed bank two distinct
\* addresses in the program windows never translate to the same offset.
C7_InjectivePerBank ==
  translate.result # None =>
    /\ InWindows(translate.cpu_addr) => InRange(translate.result)
    /\ ( /\ InWindows(translate.cpu_addr)
         /\ InWindows(translate.other)
         /\ translate.cpu_addr # translate.other )
       => translate.result # translate.other_result

\* C7 amended: for every bank and every address in a program window the
\* offset lies in [headerSize, fileLength), and for a fixed bank two distinct
\* addresses of the same window never translate to the same offset.
C7_InjectivePerWindow ==
  translate.result # None =>
    /\ InWindows(translate.cpu_addr) => InRange(translate.result)
    /\ ( /\ InWindows(translate.cpu_addr)
         /\ InWindows(translate.other)
         /\ WindowOf(translate.cpu_addr) = WindowOf(translate.other)
         /\ translate.cpu_addr # translate.other )
       => translate.result # translate.other_result

\* The two ends of the fixed window translated for the last bank: the
\* second is the last byte of the program region.
C7_Witness ==
  /\ translate.result # None
  /\ translate.bank = PRG_BANKS - 1
  /\ translate.cpu_addr = \hC000
  /\ translate.other = \hFFFF
  /\ translate.result.offset = BankStart(\h1E)
  /\ translate.other_result.offset = CHR_START - 1

\* C8 as stated: a call with an address below 0x8000 fails with OutOfRange
\* and returns no offset, for every bank.
C8_FailsBelowFloor ==
  (translate.result # None /\ translate.cpu_addr < \h8000)
    => translate.result = OutOfRange

\* C8 amended: a call with an address below 0x8000 does not fail; for every
\* bank it returns the offset that lies 0x8000 - address bytes before the
\* first byte of the bank.
C8_OffsetBelowBank ==
  (translate.result # None /\ translate.cpu_addr < \h8000)
    => /\ translate.result # OutOfRange
       /\ "offset" \in DOMAIN translate.result
       /\ translate.result.offset < BankStart(translate.bank)
       /\ BankStart(translate.bank) - translate.result.offset
            = \h8000 - translate.cpu_addr

\* Address 0 of bank 0 translated: the offset is negative.
C8_Witness ==
  /\ translate.result # None
  /\ translate.bank = 0
  /\ translate.cpu_addr = 0
  /\ translate.result.offset < 0

(***************************************************************************)
(* decode_tile_8x8 on its own, and in a hypothesis.  A run draws an image, *)
(* an offset, an entity and the selectors of a hypothesis; it decodes the  *)
(* tile at the offset and scores the hypothesis.  The offsets lie around   *)
(* both ends of the image and at tiles inside it; the selectors name pages *)
(* of the image and a page beyond its end.                                 *)
(***************************************************************************)
TileOffsets ==
  {-17, -16, -15, -1, 0, HEADER_SIZE, CHR_START,
   CHR_START + PAGE_A * \h400, CHR_START + PAGE_A * \h400 + 16,
   CHR_START + PAGE_L * \h400, CHR_START + PAGE_PAST * \h400,
   RomLen - 32, RomLen - 17, RomLen - 16, RomLen - 15, RomLen - 1,
   RomLen, RomLen + 1}

TileEntities == {E_T0, E_TWO}

TileSelectors ==
  {Regs(0, 0, ec, ed) : ec \in {PAGE_D, PAGE_PAST}, ed \in {0, PAGE_L, PAGE_PAST}}

InitTile ==
  /\ rom \in Images
  /\ pc = "start"
  /\ entity_chr_map = <<>>
  /\ eid = 0
  /\ configs_to_try = <<>>
  /\ ci = 1
  /\ best_count = Failed
  /\ best_img = None
  /\ best_info = None
  /\ best_stage = -1
  /\ best_param = -1
  /\ last = None
  /\ success = 0
  /\ failed = 0
  /\ files = <<>>
  /\ printed = <<>>
  /\ translate = None
  /\ decode \in [rom_offset : TileOffsets, entity_id : TileEntities,
                 chr_regs : TileSelectors, tile : {None}, scored : {None}]

DecodeTile ==
  /\ decode.tile = None
  /\ decode' =
       [decode EXCEPT
          !.tile = decode_tile_8x8(rom, decode.rom_offset),
          !.scored = score_sprite_coherence(rom, decode.entity_id,
                       decode.chr_regs, build_param_palettes(rom, 0))]
  /\ UNCHANGED <<rom, pc, entity_chr_map, eid, configs_to_try, ci, best_count,
                 best_img, best_info, best_stage, best_param, last, success,
                 failed, files, printed, translate>>

NextTile == DecodeTile

SpecTile == InitTile /\ [][NextTile]_vars

(***************************************************************************)
(* Properties of decode_tile_8x8, checked under SpecTile.                  *)
(***************************************************************************)
\* The 16 bytes from off on do not all lie in the image.
OutOfImage(off) == off < 0 \/ off + 16 > RomLen

\* The offset of the tile of sprite sp under the selectors chr_regs.
TileOffsetOf(sp, chr_regs) == chr_ppu_to_rom(\h1000 + sp.tile_id * 16, chr_regs)

\* The sprites of the list whose tile lies in the image, and those of them
\* whose tile has a byte that is not 0.
SpritesInImage(sprites, chr_regs) ==
  {i \in DOMAIN sprites : ~OutOfImage(TileOffsetOf(sprites[i], chr_regs))}
SpritesWithPixels(sprites, chr_regs) ==
  {i \in SpritesInImage(sprites, chr_regs) :
     \E b \in 0..15 : Rd(rom, TileOffsetOf(sprites[i], chr_regs) + b) # 0}

\* Cell c of the unscaled rendering lies in the 8x8 square of sprite sp.
InSquareOf(c, sp, sprites) ==
  /\ c[1] - (sp.x_off - Min({sprites[i].x_off : i \in DOMAIN sprites})) \in 0..7
  /\ c[2] - (sp.y_off - Min({sprites[i].y_off : i \in DOMAIN sprites})) \in 0..7

\* C12: for an offset that is negative or less than 16 bytes before the end
\* of the image, decode_tile_8x8 returns the 8x8 matrix of zeros; a
\* hypothesis that names such a tile is still composed and scored: it gets
\* a score, the tile contributes no pixel, and the rendering succeeds when
\* another of its tiles has pixels.
C12_BlankTileOutOfImage ==
  decode.tile # None =>
    /\ OutOfImage(decode.rom_offset)
         => decode.tile = [row \in 0..7 |-> [c \in 0..7 |-> 0]]
    /\ "score" \in DOMAIN decode.scored
    /\ decode.scored.sprites # <<>>
    /\ IF SpritesWithPixels(decode.scored.sprites, decode.chr_regs) = {}
       THEN /\ decode.scored.img = None
            /\ decode.scored.score = Failed
            /\ decode.scored.info = [reason |-> "all tiles blank (wrong CHR bank?)"]
       ELSE /\ decode.scored.img # None
            /\ Gt(decode.scored.score, Failed)
            /\ \A c \in OpaqueCells(decode.scored.img) :
                 \E i \in SpritesInImage(decode.scored.sprites, decode.chr_regs) :
                   InSquareOf(c, decode.scored.sprites[i], decode.scored.sprites)

\* The tile 16 bytes before the start of the image decoded, and a
\* hypothesis of two sprites scored whose first tile lies beyond the end of
\* the image and whose second has pixels.
C12_Witness ==
  /\ decode.tile # None
  /\ decode.rom_offset = -16
  /\ decode.tile = BlankTile
  /\ Cardinality(DOMAIN decode.scored.sprites) = 2
  /\ Cardinality(SpritesInImage(decode.scored.sprites, decode.chr_regs)) = 1
  /\ decode.scored.img # None
=============================================================================
